---- MODULE Spec2Model ----
(***************************************************************************)
(* Model of WebStreamer/utils/custom_dl.py (class ByteStreamer): the       *)
(* descriptor cache and its resolver, the per-client media session table,  *)
(* the chunk generator yield_file with its direct and CDN branches, and    *)
(* the cache janitor.  Every "await" of the source is a suspension point:  *)
(* an action runs the code from one suspension point to the next.          *)
(***************************************************************************)
EXTENDS Integers, Sequences, FiniteSets, TLC

VARIABLES
    work_loads,       \* WebStreamer.bot.work_loads : client index -> in-flight streams
    cdn_count,        \* WebStreamer.bot.cdn_count  : dict client index -> count
    cached_file_ids,  \* ByteStreamer.cached_file_ids : dict db_id -> FileId
    media_sessions,   \* client.media_sessions : per client, dict dc_id -> session
    sess,             \* the Session objects created so far (sequence, id = position)
    file,             \* the bytes of the media blob held upstream
    rs,               \* the get_file_properties calls (one record per caller)
    tk,               \* the yield_file calls (one record per caller)
    lookups,          \* number of get_file_ids calls issued per db_id
    last_ret,         \* per db_id, the FileId the latest completed resolution returned
    hd                \* the private_receive_handler call (bot/plugins/stream.py)

vars == <<work_loads, cdn_count, cached_file_ids, media_sessions, sess, file,
          rs, tk, lookups, last_ret, hd>>

streamVars == <<work_loads, cdn_count, media_sessions, sess, file, tk>>

resolverVars == <<cached_file_ids, rs, lookups, last_ret>>

(***************************************************************************)
(* Bounds of the model.                                                    *)
(***************************************************************************)
NumClients == 3        \* clients 0 .. NumClients-1
MaxLoad == 3           \* largest initial workload counter of the resolver runs
NumFileIds == 1        \* db ids 1 .. NumFileIds
NumResolvers == 2      \* concurrent get_file_properties callers
MaxLookups == 2        \* get_file_ids calls per db id

Clients == 0 .. (NumClients - 1)
FileIds == 1 .. NumFileIds
Resolvers == 1 .. NumResolvers
DCs == {1, 2}

EmptyDict == [k \in {} |-> 0]

DictSet(d, key, v) == [k \in (DOMAIN d) \cup {key} |-> IF k = key THEN v ELSE d[k]]

DictPop(d, key) == [k \in (DOMAIN d) \ {key} |-> d[k]]

(***************************************************************************)
(* The resolver: get_file_properties / generate_file_properties.           *)
(***************************************************************************)

\* Iteration order of the work_loads dict: the clients in pool order.
WorkLoadKeys == [i \in 1 .. NumClients |-> i - 1]

RECURSIVE MinFrom(_, _, _, _)
MinFrom(wl, keys, i, best) ==
    IF i > Len(keys) THEN best
    ELSE MinFrom(wl, keys, i + 1, IF wl[keys[i]] <= wl[best] THEN keys[i] ELSE best)

RECURSIVE MinScan(_, _, _, _)
\* Python's min(iterable, key=f): the first element is the candidate, a later
\* element replaces it only when its key is strictly smaller.
MinScan(wl, keys, i, best) ==
    IF i > Len(keys) THEN best
    ELSE MinScan(wl, keys, i + 1, IF wl[keys[i]] < wl[best] THEN keys[i] ELSE best)

MinIndexLast(wl) == MinFrom(wl, WorkLoadKeys, 2, WorkLoadKeys[1])

\* index = min(work_loads, key=work_loads.get)
MinIndex(wl) == MinScan(wl, WorkLoadKeys, 2, WorkLoadKeys[1])

\* The data center that holds the media of a db id (fixed by the upstream).
DcOf(db_id) == 1 + (db_id % 2)

\* The FileId that get_file_ids builds for db_id when asked through client index.
FileIdOf(db_id, index) == [db_id |-> db_id, index |-> index, dc_id |-> DcOf(db_id)]

\* Record fields are written in the order TLC keeps them.
NoFileId == [db_id |-> 0, index |-> -1, dc_id |-> 0]

\* A caller of get_file_properties.  hit and prev are bookkeeping: whether the
\* call found db_id cached, and what the latest resolution of db_id that had
\* completed when this call started returned (NoFileId: none had).
IdleResolver == [db_id |-> 0, index |-> -1, pc |-> "idle", ret |-> NoFileId,
                 err |-> "", hit |-> FALSE, prev |-> NoFileId]

get_file_properties_hit_refetch(p, db_id) ==
    /\ rs[p].pc = "idle"
    /\ db_id \in DOMAIN cached_file_ids
    /\ lookups' = [lookups EXCEPT ![db_id] = @ + 1]
    /\ rs' = [rs EXCEPT ![p] = [db_id |-> db_id, index |-> -1, pc |-> "done",
                                ret |-> cached_file_ids[db_id], err |-> "",
                                hit |-> TRUE, prev |-> last_ret[db_id]]]
    /\ last_ret' = [last_ret EXCEPT ![db_id] = cached_file_ids[db_id]]
    /\ UNCHANGED cached_file_ids
    /\ UNCHANGED <<streamVars, hd>>

\* get_file_properties, db_id cached: line 47 is false, line 51 returns.
get_file_properties_hit(p, db_id) ==
    /\ rs[p].pc = "idle"
    /\ db_id \in DOMAIN cached_file_ids
    /\ rs' = [rs EXCEPT ![p] = [db_id |-> db_id, index |-> -1, pc |-> "done",
                                ret |-> cached_file_ids[db_id], err |-> "",
                                hit |-> TRUE, prev |-> last_ret[db_id]]]
    /\ last_ret' = [last_ret EXCEPT ![db_id] = cached_file_ids[db_id]]
    /\ UNCHANGED <<cached_file_ids, lookups>>
    /\ UNCHANGED <<streamVars, hd>>

\* get_file_properties, db_id not cached: generate_file_properties runs up to
\* its await of get_file_ids (lines 47-49, 58-61).
get_file_properties_miss(p, db_id) ==
    /\ rs[p].pc = "idle"
    /\ db_id \notin DOMAIN cached_file_ids
    /\ lookups[db_id] < MaxLookups
    /\ lookups' = [lookups EXCEPT ![db_id] = @ + 1]
    /\ rs' = [rs EXCEPT ![p] = [db_id |-> db_id, index |-> MinIndex(work_loads),
                                pc |-> "lookup", ret |-> NoFileId,
                                err |-> "", hit |-> FALSE, prev |-> last_ret[db_id]]]
    /\ UNCHANGED <<cached_file_ids, last_ret>>
    /\ UNCHANGED <<streamVars, hd>>

\* get_file_ids returns: lines 61-65, then line 51.
generate_file_properties_return(p) ==
    /\ rs[p].pc = "lookup"
    /\ LET fid == FileIdOf(rs[p].db_id, rs[p].index) IN
        /\ cached_file_ids' = DictSet(cached_file_ids, rs[p].db_id, fid)
        /\ rs' = [rs EXCEPT ![p].pc = "done", ![p].ret = fid]
        /\ last_ret' = [last_ret EXCEPT ![rs[p].db_id] = fid]
    /\ UNCHANGED lookups
    /\ UNCHANGED <<streamVars, hd>>

generate_file_properties_raise_retry(p) ==
    /\ rs[p].pc = "lookup"
    /\ lookups[rs[p].db_id] < MaxLookups
    /\ lookups' = [lookups EXCEPT ![rs[p].db_id] = @ + 1]
    /\ rs' = [rs EXCEPT ![p].err = "LookupError"]
    /\ UNCHANGED <<cached_file_ids, last_ret>>
    /\ UNCHANGED <<streamVars, hd>>

\* get_file_ids raises: nothing catches it in lines 41-65.
generate_file_properties_raise(p) ==
    /\ rs[p].pc = "lookup"
    /\ rs' = [rs EXCEPT ![p].pc = "done", ![p].err = "LookupError"]
    /\ UNCHANGED <<cached_file_ids, lookups, last_ret>>
    /\ UNCHANGED <<streamVars, hd>>

\* The caller of a finished resolution makes its next request.
resolver_next_request(p) ==
    /\ rs[p].pc = "done"
    /\ rs' = [rs EXCEPT ![p] = IdleResolver]
    /\ UNCHANGED <<cached_file_ids, lookups, last_ret>>
    /\ UNCHANGED <<streamVars, hd>>

clean_cache_one_entry ==
    /\ cached_file_ids # EmptyDict
    /\ cached_file_ids' = DictPop(cached_file_ids,
                                  CHOOSE d \in DOMAIN cached_file_ids :
                                      \A e \in DOMAIN cached_file_ids : d <= e)
    /\ UNCHANGED <<rs, lookups, last_ret>>
    /\ UNCHANGED <<streamVars, hd>>

\* One cycle of clean_cache: the sleep of line 325 ends, line 326 clears.
clean_cache ==
    /\ cached_file_ids' = EmptyDict
    /\ UNCHANGED <<rs, lookups, last_ret>>
    /\ UNCHANGED <<streamVars, hd>>

(***************************************************************************)
(* Bytes, slices, the upstream blob, the CDN cipher and the hashes.        *)
(***************************************************************************)
Min(a, b) == IF a <= b THEN a ELSE b

\* Python's s[a:b] for 0 <= a, 0 <= b (the indices are clamped to len(s)).
PySlice(s, a, b) == SubSeq(s, a + 1, Min(b, Len(s)))

\* Python's s[a:].
PySliceFrom(s, a) == SubSeq(s, a + 1, Len(s))

\* The block length of the counter-mode cipher: the 16 of line 268.
BlockLen == 16

\* The key stream byte of counter block c at position i of the block (what
\* AES-256 under the redirect's encryption_key gives for that counter).
KeyStream(c, i) == (c * 7 + i * 3 + 5) % 256

\* upload.GetFile(location, offset, limit).bytes
GetFile(offset, limit) == PySlice(file, offset, offset + limit)

\* upload.GetCdnFile(file_token, offset, limit).bytes: the CDN node holds the
\* blob encrypted in counter mode, the counter running over its 16-byte blocks.
GetCdnFile(offset, limit) ==
    LET plain == GetFile(offset, limit) IN
    [j \in 1 .. Len(plain) |->
        (plain[j] + KeyStream((offset + j - 1) \div BlockLen,
                              (offset + j - 1) % BlockLen)) % 256]

\* aes.ctr256_decrypt(chunk, key, iv) with the counter of iv set to counter.
ctr256_decrypt(chunk, counter) ==
    [j \in 1 .. Len(chunk) |->
        (chunk[j] + 256 - KeyStream(counter + ((j - 1) \div BlockLen),
                                    (j - 1) % BlockLen)) % 256]

\* The decrypted chunk of lines 263-270: the counter is offset // 16.
DecryptedChunk(chunk, offset) == ctr256_decrypt(chunk, offset \div BlockLen)

RECURSIVE sha256(_)
\* hashlib.sha256(s).digest(), as a digest over a small range.
sha256(s) == IF s = <<>> THEN 7 ELSE (sha256(Tail(s)) * 31 + Head(s) + 1) % 251

\* Bytes covered by one entry of a hash list (FileHash.limit).
HashLimit == 8

\* upload.GetCdnFileHashes(file_token, offset): one FileHash per HashLimit
\* bytes of the chunk at offset; entry number bad (0: none) is one that does
\* not match the blob.
GetCdnFileHashes(offset, limit, bad) ==
    LET plain == GetFile(offset, limit)
        n == (Len(plain) + HashLimit - 1) \div HashLimit
    IN [i \in 1 .. n |->
          [limit |-> HashLimit,
           hash |-> (sha256(PySlice(plain, HashLimit * (i - 1), HashLimit * i))
                      + (IF i = bad THEN 1 ELSE 0)) % 251]]

HashesPassUnchecked(hashes, decrypted_chunk) == TRUE

\* Lines 280-285: every (i, h) of enumerate(hashes) passes the check.
HashesPass(hashes, decrypted_chunk) ==
    \A k \in 1 .. Len(hashes) :
        hashes[k].hash = sha256(PySlice(decrypted_chunk, hashes[k].limit * (k - 1),
                                        hashes[k].limit * k))

PartSliceUncut(chunk, current_part, part_count, first_part_cut, last_part_cut) ==
    IF part_count = 1 THEN PySlice(chunk, first_part_cut, last_part_cut)
    ELSE IF current_part = 1 THEN PySliceFrom(chunk, first_part_cut)
    ELSE chunk

\* Lines 208-215 and 289-296: what is yielded for a non-empty chunk.
PartSlice(chunk, current_part, part_count, first_part_cut, last_part_cut) ==
    IF part_count = 1 THEN PySlice(chunk, first_part_cut, last_part_cut)
    ELSE IF current_part = 1 THEN PySliceFrom(chunk, first_part_cut)
    ELSE IF current_part = part_count THEN PySlice(chunk, 0, last_part_cut)
    ELSE chunk

(***************************************************************************)
(* Sessions and the yield_file calls.                                      *)
(***************************************************************************)
NumTasks == 2          \* yield_file callers 1 .. NumTasks
MaxReuploads == 1      \* "reupload needed" answers per call
MaxParts == 3          \* part_count

Tasks == 1 .. NumTasks

\* range(6) of line 93.
AuthAttempts == 6

\* client.storage.dc_id(): the home data center of a client.
HomeDc(c) == 1

\* What an awaited upstream call inside the try of line 197 may raise.  Other
\* is any exception (or cancellation) that lines 303-314 do not name.
AwaitErrors == {"TimeoutError", "AttributeError", "OSError", "Other"}

\* A yield_file call.  The fields after result are bookkeeping: increments and
\* decrements of the workload counter made by the call, fetch requests issued,
\* "reupload needed" answers, plaintext chunks obtained, chunks yielded, the
\* branch taken, the offset the call started at, the media session the call
\* created, the answer to its latest upstream call, the latest hash list, and
\* the session that line 73 found in the table (0: none) with its is_started.
IdleTask == [pc |-> "idle", offset |-> 0, chunk |-> <<>>, hashes |-> <<>>,
             current_part |-> 0, part_count |-> 0, first_part_cut |-> 0,
             last_part_cut |-> 0, file_id |-> NoFileId, chunk_size |-> 0,
             media_session |-> 0, cdn_session |-> 0, attempts |-> 0, exc |-> "",
             result |-> "", incs |-> 0, decs |-> 0, fetches |-> 0,
             reuploads |-> 0, fetched |-> <<>>, yielded |-> <<>>, branch |-> "",
             offset0 |-> 0, created |-> 0, answer |-> "", found |-> 0,
             found_up |-> FALSE]

\* Session(client, dc_id, auth_key, test_mode, is_media=True, is_cdn=...)
NewSession(c, dc, is_cdn) ==
    [dc_id |-> dc, is_cdn |-> is_cdn, client |-> c, is_started |-> FALSE,
     stops |-> 0, imported |-> FALSE, registered |-> FALSE]

\* Session.start()
Started(s) == [s EXCEPT !.is_started = TRUE]

\* Session.stop()
Stopped(s) == [s EXCEPT !.is_started = FALSE, !.stops = @ + 1]

ClientOf(t) == tk[t].file_id.index

\* Lines 80-91 from "media_session is None" to the next await: a foreign data
\* center awaits Auth(...).create(); the home data center builds the Session
\* (the storage accessors of lines 81, 117, 118 do not suspend) and awaits
\* its start().
CreateSession(t, rec, ss) ==
    LET c == rec.file_id.index
        dc == rec.file_id.dc_id
    IN IF dc # HomeDc(c)
       THEN /\ tk' = [tk EXCEPT ![t] = [rec EXCEPT !.pc = "gms_auth",
                                                   !.media_session = 0,
                                                   !.answer = "ok"]]
            /\ sess' = ss
       ELSE /\ tk' = [tk EXCEPT ![t] = [rec EXCEPT !.pc = "gms_start",
                                                   !.media_session = Len(ss) + 1,
                                                   !.created = Len(ss) + 1,
                                                   !.answer = "ok"]]
            /\ sess' = Append(ss, NewSession(c, dc, FALSE))

\* generate_media_session returns media_session; yield_file runs lines 193-198
\* up to its first await of upload.GetFile.
FirstFetch(rec, sid) ==
    [rec EXCEPT !.pc = "fetch", !.media_session = sid, !.current_part = 1,
                !.fetches = @ + 1, !.answer = "ok"]

\* yield_file is entered (lines 188-191) and generate_media_session runs up to
\* its first await (lines 73-91).
yield_file_enter(t, fid, offset, first_part_cut, last_part_cut, part_count, chunk_size) ==
    /\ tk[t].pc = "idle"
    /\ LET c == fid.index
           dc == fid.dc_id
           rec == [tk[t] EXCEPT !.file_id = fid, !.offset = offset, !.offset0 = offset,
                                !.first_part_cut = first_part_cut,
                                !.last_part_cut = last_part_cut,
                                !.part_count = part_count,
                                !.chunk_size = chunk_size, !.incs = @ + 1,
                                !.found = IF fid.dc_id \in DOMAIN media_sessions[fid.index]
                                          THEN media_sessions[fid.index][fid.dc_id]
                                          ELSE 0,
                                !.found_up = /\ fid.dc_id \in DOMAIN media_sessions[fid.index]
                                             /\ sess[media_sessions[fid.index][fid.dc_id]].is_started]
       IN /\ work_loads' = [work_loads EXCEPT ![c] = @ + 1]
          /\ IF dc \in DOMAIN media_sessions[c]
             THEN LET sid == media_sessions[c][dc] IN
                  IF ~ sess[sid].is_started
                  THEN \* lines 75-77: pop, then await media_session.stop()
                       /\ media_sessions' = [media_sessions EXCEPT ![c] = DictPop(@, dc)]
                       /\ tk' = [tk EXCEPT ![t] = [rec EXCEPT !.pc = "gms_stop_old",
                                                              !.media_session = sid]]
                       /\ UNCHANGED sess
                  ELSE \* line 125: the cached session is returned
                       /\ tk' = [tk EXCEPT ![t] = FirstFetch(rec, sid)]
                       /\ UNCHANGED <<media_sessions, sess>>
             ELSE /\ CreateSession(t, rec, sess)
                  /\ UNCHANGED media_sessions
    /\ UNCHANGED <<cdn_count, file>>
    /\ UNCHANGED <<resolverVars, hd>>

gms_stop_old_return_unstopped(t) ==
    /\ tk[t].pc = "gms_stop_old"
    /\ CreateSession(t, tk[t], sess)
    /\ UNCHANGED <<work_loads, cdn_count, media_sessions, file>>
    /\ UNCHANGED <<resolverVars, hd>>

\* Line 77 returns: the disconnected session is stopped, line 78 forgets it and
\* line 80 goes on to create a new one.
gms_stop_old_return(t) ==
    /\ tk[t].pc = "gms_stop_old"
    /\ CreateSession(t, tk[t],
                     [sess EXCEPT ![tk[t].media_session] = Stopped(@)])
    /\ UNCHANGED <<work_loads, cdn_count, media_sessions, file>>
    /\ UNCHANGED <<resolverVars, hd>>

\* Auth(...).create() of lines 85-87 returns: the Session of lines 82-90 is
\* built and line 91 awaits its start().
gms_auth_return(t) ==
    /\ tk[t].pc = "gms_auth"
    /\ sess' = Append(sess, NewSession(ClientOf(t), tk[t].file_id.dc_id, FALSE))
    /\ tk' = [tk EXCEPT ![t].pc = "gms_start", ![t].media_session = Len(sess) + 1,
                        ![t].created = Len(sess) + 1, ![t].answer = "ok"]
    /\ UNCHANGED <<work_loads, cdn_count, media_sessions, file>>
    /\ UNCHANGED <<resolverVars, hd>>

\* Lines 122-126: the new session is put in the table and returned.
RegisterAndReturn(t, ss) ==
    LET sid == tk[t].media_session
        c == ClientOf(t)
    IN /\ media_sessions' = [media_sessions EXCEPT
                                ![c] = DictSet(@, tk[t].file_id.dc_id, sid)]
       /\ sess' = [ss EXCEPT ![sid].registered = TRUE]
       /\ tk' = [tk EXCEPT ![t] = FirstFetch(tk[t], sid)]

\* media_session.start() returns (line 91 or 121).  Home data center: register
\* and return.  Foreign data center: the loop of line 93 starts, line 94 awaits
\* the export.
gms_start_return(t) ==
    /\ tk[t].pc = "gms_start"
    /\ LET sid == tk[t].media_session
           ss == [sess EXCEPT ![sid] = Started(@)]
       IN IF tk[t].file_id.dc_id # HomeDc(ClientOf(t))
          THEN /\ sess' = ss
               /\ tk' = [tk EXCEPT ![t].pc = "gms_export", ![t].answer = "ok"]
               /\ UNCHANGED media_sessions
          ELSE RegisterAndReturn(t, ss)
    /\ UNCHANGED <<work_loads, cdn_count, file>>
    /\ UNCHANGED <<resolverVars, hd>>

\* An await of generate_media_session raises something other than
\* AuthBytesInvalid (here: start(), the export or the import): line 191 is
\* outside the try of line 197, so the exception leaves yield_file at once.
gms_raise(t) ==
    /\ tk[t].pc \in {"gms_start", "gms_export", "gms_import"}
    /\ tk' = [tk EXCEPT ![t].pc = "done", ![t].result = "Other",
                        ![t].answer = "Other"]
    /\ UNCHANGED <<work_loads, cdn_count, media_sessions, sess, file>>
    /\ UNCHANGED <<resolverVars, hd>>

\* auth.ExportAuthorization returns (line 94); line 99 awaits the import.
gms_export_return(t) ==
    /\ tk[t].pc = "gms_export"
    /\ tk' = [tk EXCEPT ![t].pc = "gms_import", ![t].attempts = @ + 1,
                        ![t].answer = "ok"]
    /\ UNCHANGED <<work_loads, cdn_count, media_sessions, sess, file>>
    /\ UNCHANGED <<resolverVars, hd>>

\* auth.ImportAuthorization returns: break (line 104), then lines 122-126.
gms_import_return(t) ==
    /\ tk[t].pc = "gms_import"
    /\ RegisterAndReturn(t, [sess EXCEPT ![tk[t].media_session].imported = TRUE])
    /\ UNCHANGED <<work_loads, cdn_count, file>>
    /\ UNCHANGED <<resolverVars, hd>>

ImportRetryOneMore(t) == IF tk[t].attempts <= AuthAttempts THEN "gms_export" ELSE "gms_stop_fail"

\* Where the loop of line 93 goes after AuthBytesInvalid: the next iteration,
\* or its else clause (line 111) once range(6) is used up.
ImportRetry(t) == IF tk[t].attempts < AuthAttempts THEN "gms_export" ELSE "gms_stop_fail"

\* auth.ImportAuthorization raises AuthBytesInvalid (lines 105-109).
gms_import_invalid(t) ==
    /\ tk[t].pc = "gms_import"
    /\ tk' = [tk EXCEPT ![t].pc = ImportRetry(t), ![t].answer = "AuthBytesInvalid"]
    /\ UNCHANGED <<work_loads, cdn_count, media_sessions, sess, file>>
    /\ UNCHANGED <<resolverVars, hd>>

\* Line 111 returns: the session is stopped and line 112 raises, out of
\* generate_media_session and (line 191) out of yield_file.
gms_stop_fail_return(t) ==
    /\ tk[t].pc = "gms_stop_fail"
    /\ sess' = [sess EXCEPT ![tk[t].media_session] = Stopped(@)]
    /\ tk' = [tk EXCEPT ![t].pc = "done", ![t].result = "AuthBytesInvalid"]
    /\ UNCHANGED <<work_loads, cdn_count, media_sessions, file>>
    /\ UNCHANGED <<resolverVars, hd>>

\* The transport of a started session of the table goes down: its is_started
\* is cleared (what line 74 tests).
session_disconnect(sid) ==
    /\ sid \in 1 .. Len(sess)
    /\ sess[sid].is_started
    /\ \E c \in Clients : \E dc \in DOMAIN media_sessions[c] : media_sessions[c][dc] = sid
    /\ sess' = [sess EXCEPT ![sid].is_started = FALSE]
    /\ UNCHANGED <<work_loads, cdn_count, media_sessions, file, tk>>
    /\ UNCHANGED <<resolverVars, hd>>

ResultOfTimeoutRaised(e) ==
    IF e \in {"", "AttributeError"} THEN "end" ELSE e

\* The result of a call that leaves the try of line 197 with exception e
\* ("": none).  Lines 307-308 swallow TimeoutError and AttributeError.
ResultOf(e) ==
    IF e \in {"", "TimeoutError", "AttributeError"} THEN "end" ELSE e

\* Control leaves the body of the try of line 197 with exception e ("": by
\* falling off its end, "GeneratorExit": the consumer closed the generator).
\* OSError: lines 310-312 pop the table entry and await media_session.stop().
\* Anything else: the finally of lines 315-317 runs and the call ends.
LeaveTry(t, rec, e) ==
    IF e = "OSError"
    THEN /\ media_sessions' = [media_sessions EXCEPT
                                  ![rec.file_id.index] = DictPop(@, rec.file_id.dc_id)]
         /\ tk' = [tk EXCEPT ![t] = [rec EXCEPT !.pc = "os_stop", !.exc = e]]
         /\ UNCHANGED work_loads
    ELSE /\ tk' = [tk EXCEPT ![t] = [rec EXCEPT !.pc = "done", !.exc = "",
                                                !.result = ResultOf(e),
                                                !.decs = @ + 1]]
         /\ work_loads' = [work_loads EXCEPT ![rec.file_id.index] = @ - 1]
         /\ UNCHANGED media_sessions

os_stop_return_unstopped(t) ==
    /\ tk[t].pc = "os_stop"
    /\ tk' = [tk EXCEPT ![t].pc = "done", ![t].exc = "", ![t].result = "OSError",
                        ![t].decs = @ + 1]
    /\ work_loads' = [work_loads EXCEPT ![ClientOf(t)] = @ - 1]
    /\ UNCHANGED <<cdn_count, media_sessions, sess, file>>
    /\ UNCHANGED <<resolverVars, hd>>

\* Line 312 returns: the media session is stopped; lines 313-317 log, re-raise
\* and run the finally.
os_stop_return(t) ==
    /\ tk[t].pc = "os_stop"
    /\ sess' = [sess EXCEPT ![tk[t].media_session] = Stopped(@)]
    /\ tk' = [tk EXCEPT ![t].pc = "done", ![t].exc = "", ![t].result = "OSError",
                        ![t].decs = @ + 1]
    /\ work_loads' = [work_loads EXCEPT ![ClientOf(t)] = @ - 1]
    /\ UNCHANGED <<cdn_count, media_sessions, file>>
    /\ UNCHANGED <<resolverVars, hd>>

\* Lines 205-215 / 287-296 for a fetched plaintext chunk: the record of the
\* call suspended at its yield.
Yield(rec, chunk, pc) ==
    [rec EXCEPT !.pc = pc,
                !.fetched = Append(@, chunk),
                !.yielded = Append(@, PartSlice(chunk, rec.current_part, rec.part_count,
                                                rec.first_part_cut, rec.last_part_cut))]

\* upload.GetFile returns an upload.File (line 198 or 223): lines 205-215.
fetch_return_file(t) ==
    /\ tk[t].pc = "fetch"
    /\ LET chunk == GetFile(tk[t].offset, tk[t].chunk_size)
           rec == [tk[t] EXCEPT !.branch = "direct", !.answer = "File"]
       IN IF chunk = <<>>
          THEN LeaveTry(t, rec, "")
          ELSE /\ tk' = [tk EXCEPT ![t] = Yield(rec, chunk, "yielded")]
               /\ UNCHANGED <<work_loads, media_sessions>>
    /\ UNCHANGED <<cdn_count, sess, file>>
    /\ UNCHANGED <<resolverVars, hd>>

\* The first upload.GetFile returns an upload.FileCdnRedirect: lines 229-233
\* up to the await of Auth(...).create().
fetch_return_redirect(t) ==
    /\ tk[t].pc = "fetch"
    /\ tk[t].branch = ""
    /\ LET c == ClientOf(t) IN
       cdn_count' = DictSet(cdn_count, c,
                            IF c \in DOMAIN cdn_count THEN cdn_count[c] + 1 ELSE 1)
    /\ tk' = [tk EXCEPT ![t].pc = "cdn_auth", ![t].branch = "cdn",
                        ![t].answer = "FileCdnRedirect"]
    /\ UNCHANGED <<work_loads, media_sessions, sess, file>>
    /\ UNCHANGED <<resolverVars, hd>>

\* upload.GetFile raises e (line 198 or 223).  A redirect answered to a fetch
\* of line 223 has no bytes attribute: that is the AttributeError case.
fetch_raise(t, e) ==
    /\ tk[t].pc = "fetch"
    /\ LeaveTry(t, [tk[t] EXCEPT !.answer = e], e)
    /\ UNCHANGED <<cdn_count, sess, file>>
    /\ UNCHANGED <<resolverVars, hd>>

yield_resume_same_offset(t) ==
    /\ tk[t].pc = "yielded"
    /\ LET rec == [tk[t] EXCEPT !.current_part = @ + 1,
                                !.answer = "next"]
       IN IF rec.current_part > rec.part_count
          THEN LeaveTry(t, rec, "")
          ELSE /\ tk' = [tk EXCEPT ![t] = [rec EXCEPT !.pc = "fetch",
                                                      !.fetches = @ + 1]]
               /\ UNCHANGED <<work_loads, media_sessions>>
    /\ UNCHANGED <<cdn_count, sess, file>>
    /\ UNCHANGED <<resolverVars, hd>>

\* The consumer asks for the next chunk: lines 217-227.
yield_resume(t) ==
    /\ tk[t].pc = "yielded"
    /\ LET rec == [tk[t] EXCEPT !.current_part = @ + 1,
                                !.offset = @ + tk[t].chunk_size,
                                !.answer = "next"]
       IN IF rec.current_part > rec.part_count
          THEN LeaveTry(t, rec, "")
          ELSE /\ tk' = [tk EXCEPT ![t] = [rec EXCEPT !.pc = "fetch",
                                                      !.fetches = @ + 1]]
               /\ UNCHANGED <<work_loads, media_sessions>>
    /\ UNCHANGED <<cdn_count, sess, file>>
    /\ UNCHANGED <<resolverVars, hd>>

\* The consumer closes the generator while it is suspended at a yield of
\* lines 209-215: GeneratorExit is raised there.
yield_close(t) ==
    /\ tk[t].pc = "yielded"
    /\ LeaveTry(t, [tk[t] EXCEPT !.answer = "close"], "GeneratorExit")
    /\ UNCHANGED <<cdn_count, sess, file>>
    /\ UNCHANGED <<resolverVars, hd>>

\* Auth(...).create() of line 231 returns: the CDN Session of lines 230-233 is
\* built, the try of line 235 is entered and line 236 awaits its start().
cdn_auth_return(t) ==
    /\ tk[t].pc = "cdn_auth"
    /\ sess' = Append(sess, NewSession(ClientOf(t), tk[t].file_id.dc_id, TRUE))
    /\ tk' = [tk EXCEPT ![t].pc = "cdn_start", ![t].cdn_session = Len(sess) + 1,
                        ![t].answer = "ok"]
    /\ UNCHANGED <<work_loads, cdn_count, media_sessions, file>>
    /\ UNCHANGED <<resolverVars, hd>>

\* Auth(...).create() of line 231 raises e: no CDN session exists yet and the
\* try of line 235 has not been entered.
cdn_auth_raise(t, e) ==
    /\ tk[t].pc = "cdn_auth"
    /\ LeaveTry(t, [tk[t] EXCEPT !.answer = e], e)
    /\ UNCHANGED <<cdn_count, sess, file>>
    /\ UNCHANGED <<resolverVars, hd>>

\* Control leaves the body of the try of line 235 with exception e ("": by a
\* break): lines 303-306 re-raise and await cdn_session.stop().
LeaveCdnTry(rec, e) == [rec EXCEPT !.pc = "cdn_stop", !.exc = e]

\* cdn_session.start() returns; line 239 awaits the first upload.GetCdnFile.
cdn_start_return(t) ==
    /\ tk[t].pc = "cdn_start"
    /\ sess' = [sess EXCEPT ![tk[t].cdn_session] = Started(@)]
    /\ tk' = [tk EXCEPT ![t].pc = "cdn_fetch", ![t].fetches = @ + 1,
                        ![t].answer = "ok"]
    /\ UNCHANGED <<work_loads, cdn_count, media_sessions, file>>
    /\ UNCHANGED <<resolverVars, hd>>

\* An await inside the try of line 235 raises e: cdn_session.start(),
\* upload.GetCdnFile, upload.ReuploadCdnFile or upload.GetCdnFileHashes.
cdn_raise(t, e) ==
    /\ tk[t].pc \in {"cdn_start", "cdn_fetch", "cdn_reupload", "cdn_hashes"}
    /\ tk' = [tk EXCEPT ![t] = LeaveCdnTry([tk[t] EXCEPT !.answer = e], e)]
    /\ UNCHANGED <<work_loads, cdn_count, media_sessions, sess, file>>
    /\ UNCHANGED <<resolverVars, hd>>

\* upload.GetCdnFile returns a CdnFile: lines 260-277 decrypt it and await the
\* hash list.
cdn_fetch_return_file(t) ==
    /\ tk[t].pc = "cdn_fetch"
    /\ tk' = [tk EXCEPT ![t].pc = "cdn_hashes", ![t].answer = "CdnFile",
                        ![t].hashes = <<>>,
                        ![t].chunk = DecryptedChunk(GetCdnFile(tk[t].offset,
                                                               tk[t].chunk_size),
                                                    tk[t].offset)]
    /\ UNCHANGED <<work_loads, cdn_count, media_sessions, sess, file>>
    /\ UNCHANGED <<resolverVars, hd>>

\* upload.GetCdnFile returns CdnFileReuploadNeeded: line 249 awaits
\* upload.ReuploadCdnFile on the media session.
cdn_fetch_reupload_needed(t) ==
    /\ tk[t].pc = "cdn_fetch"
    /\ tk[t].reuploads < MaxReuploads
    /\ tk' = [tk EXCEPT ![t].pc = "cdn_reupload", ![t].reuploads = @ + 1,
                        ![t].answer = "CdnFileReuploadNeeded"]
    /\ UNCHANGED <<work_loads, cdn_count, media_sessions, sess, file>>
    /\ UNCHANGED <<resolverVars, hd>>

\* The bookkeeping count of fetch requests stops at MaxFetches: the loop of
\* lines 238-258 has no bound of its own.
MaxFetches == MaxParts + MaxReuploads + 2

CountFetch(n) == IF n < MaxFetches THEN n + 1 ELSE n

\* upload.GetCdnFile returns CdnFileReuploadNeeded to a call that was already
\* told so MaxReuploads times (the count of these answers stays at its cap).
cdn_fetch_reupload_needed_again(t) ==
    /\ tk[t].pc = "cdn_fetch"
    /\ tk[t].reuploads = MaxReuploads
    /\ tk' = [tk EXCEPT ![t].pc = "cdn_reupload",
                        ![t].answer = "CdnFileReuploadNeeded"]
    /\ UNCHANGED <<work_loads, cdn_count, media_sessions, sess, file>>
    /\ UNCHANGED <<resolverVars, hd>>

cdn_reupload_return_advance(t) ==
    /\ tk[t].pc = "cdn_reupload"
    /\ tk' = [tk EXCEPT ![t].pc = "cdn_fetch", ![t].fetches = CountFetch(@),
                        ![t].answer = "ok", ![t].offset = @ + tk[t].chunk_size]
    /\ UNCHANGED <<work_loads, cdn_count, media_sessions, sess, file>>
    /\ UNCHANGED <<resolverVars, hd>>

\* upload.ReuploadCdnFile returns: continue (line 258), line 239 fetches again.
cdn_reupload_return(t) ==
    /\ tk[t].pc = "cdn_reupload"
    /\ tk' = [tk EXCEPT ![t].pc = "cdn_fetch", ![t].fetches = CountFetch(@),
                        ![t].answer = "ok"]
    /\ UNCHANGED <<work_loads, cdn_count, media_sessions, sess, file>>
    /\ UNCHANGED <<resolverVars, hd>>

\* upload.ReuploadCdnFile raises VolumeLocNotFound: break (lines 255-256).
cdn_reupload_not_found(t) ==
    /\ tk[t].pc = "cdn_reupload"
    /\ tk' = [tk EXCEPT ![t] = LeaveCdnTry([tk[t] EXCEPT !.answer = "VolumeLocNotFound"],
                                           "")]
    /\ UNCHANGED <<work_loads, cdn_count, media_sessions, sess, file>>
    /\ UNCHANGED <<resolverVars, hd>>

\* upload.GetCdnFileHashes returns (entry bad of the list not matching the
\* blob, 0: all match): lines 280-296.
cdn_hashes_return(t, bad) ==
    /\ tk[t].pc = "cdn_hashes"
    /\ LET hashes == GetCdnFileHashes(tk[t].offset, tk[t].chunk_size, bad)
           decrypted_chunk == tk[t].chunk
           rec == [tk[t] EXCEPT !.hashes = hashes, !.answer = "hashes"]
       IN /\ bad <= Len(hashes)
          /\ tk' = [tk EXCEPT ![t] =
                IF ~ HashesPass(hashes, decrypted_chunk)
                THEN LeaveCdnTry(rec, "CDNFileHashMismatch")
                ELSE IF decrypted_chunk = <<>>
                THEN LeaveCdnTry(rec, "")
                ELSE Yield(rec, decrypted_chunk, "cdn_yielded")]
    /\ UNCHANGED <<work_loads, cdn_count, media_sessions, sess, file>>
    /\ UNCHANGED <<resolverVars, hd>>

\* The consumer asks for the next chunk: lines 298-302, then line 239.
cdn_yield_resume(t) ==
    /\ tk[t].pc = "cdn_yielded"
    /\ LET rec == [tk[t] EXCEPT !.current_part = @ + 1,
                                !.offset = @ + tk[t].chunk_size,
                                !.answer = "next"]
       IN tk' = [tk EXCEPT ![t] =
                IF rec.current_part > rec.part_count
                THEN LeaveCdnTry(rec, "")
                ELSE [rec EXCEPT !.pc = "cdn_fetch", !.fetches = @ + 1]]
    /\ UNCHANGED <<work_loads, cdn_count, media_sessions, sess, file>>
    /\ UNCHANGED <<resolverVars, hd>>

\* The consumer closes the generator while it is suspended at a yield of
\* lines 290-296: GeneratorExit is raised there.
cdn_yield_close(t) ==
    /\ tk[t].pc = "cdn_yielded"
    /\ tk' = [tk EXCEPT ![t] = LeaveCdnTry([tk[t] EXCEPT !.answer = "close"],
                                           "GeneratorExit")]
    /\ UNCHANGED <<work_loads, cdn_count, media_sessions, sess, file>>
    /\ UNCHANGED <<resolverVars, hd>>

cdn_stop_return_unstopped(t) ==
    /\ tk[t].pc = "cdn_stop"
    /\ LeaveTry(t, tk[t], tk[t].exc)
    /\ UNCHANGED <<cdn_count, sess, file>>
    /\ UNCHANGED <<resolverVars, hd>>

\* Line 306 returns: the CDN session is stopped and the pending exception, if
\* any, goes on to the handlers of lines 307-317.
cdn_stop_return(t) ==
    /\ tk[t].pc = "cdn_stop"
    /\ sess' = [sess EXCEPT ![tk[t].cdn_session] = Stopped(@)]
    /\ LeaveTry(t, tk[t], tk[t].exc)
    /\ UNCHANGED <<cdn_count, file>>
    /\ UNCHANGED <<resolverVars, hd>>

\* One step of generate_media_session inside a yield_file call.
SessionStep(t) ==
    \/ gms_stop_old_return(t)
    \/ gms_auth_return(t)
    \/ gms_start_return(t)
    \/ gms_raise(t)
    \/ gms_export_return(t)
    \/ gms_import_return(t)
    \/ gms_import_invalid(t)
    \/ gms_stop_fail_return(t)

\* One step of the direct branch of yield_file and of its handlers, the
\* awaited calls raising the exceptions of errs.
DirectStep(t, errs) ==
    \/ fetch_return_file(t)
    \/ \E e \in errs : fetch_raise(t, e)
    \/ yield_resume(t)
    \/ yield_close(t)
    \/ os_stop_return(t)

\* One step of the CDN branch of yield_file, the awaited calls raising the
\* exceptions of errs and the hash lists having a bad entry among bads.
CdnStep(t, errs, bads) ==
    \/ fetch_return_redirect(t)
    \/ cdn_auth_return(t)
    \/ \E e \in errs : cdn_auth_raise(t, e)
    \/ cdn_start_return(t)
    \/ \E e \in errs : cdn_raise(t, e)
    \/ cdn_fetch_return_file(t)
    \/ cdn_fetch_reupload_needed(t)
    \/ cdn_reupload_return(t)
    \/ cdn_reupload_not_found(t)
    \/ \E bad \in bads : cdn_hashes_return(t, bad)
    \/ cdn_yield_resume(t)
    \/ cdn_yield_close(t)
    \/ cdn_stop_return(t)

(***************************************************************************)
(* The upload handler private_receive_handler of bot/plugins/stream.py.    *)
(***************************************************************************)
MaxWait == 2           \* FloodWait.value, in seconds

\* What an awaited call of the handler may raise.
HandlerErrors == {"FloodWait", "Other"}

\* The awaits of lines 34-41, before the try of line 43.
PreChecks == {"is_user_banned", "is_user_exist", "is_user_accepted_tos", "is_user_joined"}

\* The awaits inside the try of lines 43-57, in order.
TryAwaits == <<"add_file", "get_file_ids", "gen_link", "reply_text">>

\* A handler call.  value is FloodWait.value of the caught error, slept the
\* argument of the asyncio.sleep that has returned, at the await that raised.
IdleHandler == [pc |-> "idle", result |-> "", value |-> 0, slept |-> 0,
                notified |-> FALSE, at |-> "", TOS |-> FALSE,
                FORCE_UPDATES_CHANNEL |-> FALSE]

HandlerFrame == UNCHANGED <<streamVars, resolverVars>>

\* The handler ends: it returns (result "return") or result propagates.
HandlerEnd(h, result) == [h EXCEPT !.pc = "done", !.result = result]

\* Lines 37-43 from the check of Var.TOS on.
AfterExist(h) ==
    IF h.TOS THEN [h EXCEPT !.pc = "is_user_accepted_tos"]
    ELSE IF h.FORCE_UPDATES_CHANNEL THEN [h EXCEPT !.pc = "is_user_joined"]
    ELSE [h EXCEPT !.pc = "add_file"]

\* A message arrives (lines 31-34), under a configuration of Var.
private_receive_handler(tos, force) ==
    /\ hd.pc = "idle"
    /\ hd' = [hd EXCEPT !.pc = "is_user_banned", !.TOS = tos,
                        !.FORCE_UPDATES_CHANNEL = force]
    /\ HandlerFrame

\* is_user_banned returns (lines 34-36).
is_user_banned_return(banned) ==
    /\ hd.pc = "is_user_banned"
    /\ hd' = IF banned THEN HandlerEnd(hd, "return")
             ELSE [hd EXCEPT !.pc = "is_user_exist"]
    /\ HandlerFrame

\* is_user_exist returns (lines 36-43).
is_user_exist_return ==
    /\ hd.pc = "is_user_exist"
    /\ hd' = AfterExist(hd)
    /\ HandlerFrame

\* is_user_accepted_tos returns (lines 38-43).
is_user_accepted_tos_return(accepted) ==
    /\ hd.pc = "is_user_accepted_tos"
    /\ hd' = IF ~ accepted THEN HandlerEnd(hd, "return")
             ELSE IF hd.FORCE_UPDATES_CHANNEL THEN [hd EXCEPT !.pc = "is_user_joined"]
             ELSE [hd EXCEPT !.pc = "add_file"]
    /\ HandlerFrame

\* is_user_joined returns (lines 41-43).
is_user_joined_return(joined) ==
    /\ hd.pc = "is_user_joined"
    /\ hd' = IF ~ joined THEN HandlerEnd(hd, "return")
             ELSE [hd EXCEPT !.pc = "add_file"]
    /\ HandlerFrame

\* An await of lines 34-41 raises e: it is outside the try and propagates.
precheck_raise(e) ==
    /\ hd.pc \in PreChecks
    /\ hd' = [HandlerEnd(hd, e) EXCEPT !.at = hd.pc]
    /\ HandlerFrame

\* The await number i of the try returns (lines 48-57): the next one is
\* awaited, or the handler returns after the reply.
try_return(i) ==
    /\ hd.pc = TryAwaits[i]
    /\ hd' = IF i < Len(TryAwaits) THEN [hd EXCEPT !.pc = TryAwaits[i + 1]]
             ELSE HandlerEnd(hd, "return")
    /\ HandlerFrame

\* An await of the try raises e (with e.value = v for FloodWait): line 60
\* catches FloodWait and line 62 awaits the sleep; anything else propagates.
try_raise(i, e, v) ==
    /\ hd.pc = TryAwaits[i]
    /\ hd' = IF e = "FloodWait"
             THEN [hd EXCEPT !.pc = "sleep", !.value = v, !.at = hd.pc]
             ELSE [HandlerEnd(hd, e) EXCEPT !.at = hd.pc]
    /\ HandlerFrame

\* asyncio.sleep(e.value) returns (line 62); line 63 awaits send_message.
sleep_return ==
    /\ hd.pc = "sleep"
    /\ hd' = [hd EXCEPT !.pc = "send_message", !.slept = hd.value]
    /\ HandlerFrame

\* bot.send_message(BIN_CHANNEL, ...) returns (line 63): the handler returns.
send_message_return ==
    /\ hd.pc = "send_message"
    /\ hd' = [HandlerEnd(hd, "return") EXCEPT !.notified = TRUE]
    /\ HandlerFrame

\* bot.send_message raises e: line 63 is inside no try, e propagates.
send_message_raise(e) ==
    /\ hd.pc = "send_message"
    /\ hd' = HandlerEnd(hd, e)
    /\ HandlerFrame

(***************************************************************************)
(* The handler under every configuration of Var and every outcome of its   *)
(* awaits.                                                                 *)
(***************************************************************************)
InitHandler ==
    /\ work_loads = [c \in Clients |-> 0]
    /\ cdn_count = EmptyDict
    /\ cached_file_ids = EmptyDict
    /\ media_sessions = [c \in Clients |-> EmptyDict]
    /\ sess = <<>>
    /\ file = <<>>
    /\ rs = [p \in Resolvers |-> IdleResolver]
    /\ tk = [t \in Tasks |-> IdleTask]
    /\ lookups = [d \in FileIds |-> 0]
    /\ last_ret = [d \in FileIds |-> NoFileId]
    /\ hd = IdleHandler

NextHandler ==
    \/ \E tos \in BOOLEAN, force \in BOOLEAN : private_receive_handler(tos, force)
    \/ \E banned \in BOOLEAN : is_user_banned_return(banned)
    \/ is_user_exist_return
    \/ \E accepted \in BOOLEAN : is_user_accepted_tos_return(accepted)
    \/ \E joined \in BOOLEAN : is_user_joined_return(joined)
    \/ \E e \in HandlerErrors : precheck_raise(e)
    \/ \E i \in 1 .. Len(TryAwaits) : try_return(i)
    \/ \E i \in 1 .. Len(TryAwaits), e \in HandlerErrors, v \in 1 .. MaxWait :
          try_raise(i, e, v)
    \/ sleep_return
    \/ send_message_return
    \/ \E e \in HandlerErrors : send_message_raise(e)

SpecHandler == InitHandler /\ [][NextHandler]_vars

(***************************************************************************)
(* One yield_file call over every blob, range and session table.           *)
(***************************************************************************)
ChunkBlocks == 1       \* chunk_size, in cipher blocks
MaxFileUnits == 2      \* blob length, in units of FileUnit bytes
MaxStartPart == 1      \* offset, in chunks
MaxCutUnits == 1       \* first_part_cut and last_part_cut, in units of CutUnit bytes

FileUnit == 20
CutUnit == 7

ChunkSize == BlockLen * ChunkBlocks

\* The blob of n bytes.
Blob(n) == [i \in 1 .. n |-> (i * 37 + 11) % 256]

EmptyWorld ==
    /\ work_loads = [c \in Clients |-> 0]
    /\ cdn_count = EmptyDict
    /\ cached_file_ids = EmptyDict
    /\ rs = [p \in Resolvers |-> IdleResolver]
    /\ tk = [t \in Tasks |-> IdleTask]
    /\ lookups = [d \in FileIds |-> 0]
    /\ last_ret = [d \in FileIds |-> NoFileId]
    /\ hd = IdleHandler

\* A media session of client c for data center dc that an earlier call
\* registered; up tells whether its transport is still started.
EarlierSession(c, dc, up) ==
    [NewSession(c, dc, FALSE) EXCEPT !.is_started = up, !.registered = TRUE,
                                     !.imported = (dc # HomeDc(c))]

\* The session table of client 0 is empty, or holds a media session for data
\* center 2 that an earlier call registered.
InitStream ==
    /\ EmptyWorld
    /\ file \in {Blob(k * FileUnit) : k \in 0 .. MaxFileUnits}
    /\ \/ /\ sess = <<>>
          /\ media_sessions = [c \in Clients |-> EmptyDict]
       \/ \E up \in BOOLEAN :
          /\ sess = <<EarlierSession(0, 2, up)>>
          /\ media_sessions = [c \in Clients |-> IF c = 0 THEN (2 :> 1) ELSE EmptyDict]

\* The FileId of the blob when it lies in data center dc and was resolved
\* through client index.
BlobFileId(dc, index) == [db_id |-> 1, index |-> index, dc_id |-> dc]

\* The entries of the hash list of a full chunk.
HashEntries == (ChunkSize + HashLimit - 1) \div HashLimit

StreamCall(t) ==
    \E dc \in DCs, k \in 0 .. MaxStartPart, a \in 0 .. MaxCutUnits,
       b \in 0 .. MaxCutUnits, n \in 1 .. MaxParts :
        yield_file_enter(t, BlobFileId(dc, 0), k * ChunkSize, a * CutUnit, b * CutUnit,
                         n, ChunkSize)

NextStream ==
    \/ StreamCall(1)
    \/ SessionStep(1)
    \/ DirectStep(1, AwaitErrors)
    \/ CdnStep(1, AwaitErrors, 0 .. HashEntries)

SpecStream == InitStream /\ [][NextStream]_vars

(***************************************************************************)
(* One yield_file call consumed to its end, every awaited call returning   *)
(* (none raises) and the CDN node answering "reupload needed" as often as   *)
(* it likes.  An awaited call eventually returns and the consumer           *)
(* eventually asks for the next chunk: weak fairness of the step relation.  *)
(***************************************************************************)
NextLive ==
    \/ StreamCall(1)
    \/ gms_stop_old_return(1)
    \/ gms_auth_return(1)
    \/ gms_start_return(1)
    \/ gms_export_return(1)
    \/ gms_import_return(1)
    \/ fetch_return_file(1)
    \/ fetch_return_redirect(1)
    \/ yield_resume(1)
    \/ cdn_auth_return(1)
    \/ cdn_start_return(1)
    \/ cdn_fetch_return_file(1)
    \/ cdn_fetch_reupload_needed(1)
    \/ cdn_fetch_reupload_needed_again(1)
    \/ cdn_reupload_return(1)
    \/ cdn_hashes_return(1, 0)
    \/ cdn_yield_resume(1)
    \/ cdn_stop_return(1)

SpecLive == InitStream /\ [][NextLive]_vars /\ WF_vars(NextLive)

(***************************************************************************)
(* Interleaved yield_file calls of one client over one blob, the upstream   *)
(* answering every upload.GetFile with an upload.File or an error.         *)
(***************************************************************************)
InitShared ==
    /\ EmptyWorld
    /\ file = Blob(FileUnit)
    /\ sess = <<>>
    /\ media_sessions = [c \in Clients |-> EmptyDict]

SharedCall(t) ==
    \E dc \in DCs :
        yield_file_enter(t, BlobFileId(dc, 0), 0, 0, CutUnit, 1, ChunkSize)

NextShared ==
    \/ \E t \in Tasks : SharedCall(t)
    \/ \E t \in Tasks : SessionStep(t)
    \/ \E t \in Tasks : DirectStep(t, AwaitErrors)
    \/ \E sid \in 1 .. Len(sess) : session_disconnect(sid)

SpecShared == InitShared /\ [][NextShared]_vars

(***************************************************************************)
(* Two yield_file calls of one client for one data center, the second      *)
(* entered when the first has ended.                                       *)
(***************************************************************************)
InitSeq ==
    /\ EmptyWorld
    /\ file = Blob(FileUnit)
    /\ \/ /\ sess = <<>>
          /\ media_sessions = [c \in Clients |-> EmptyDict]
       \/ \E up \in BOOLEAN :
          /\ sess = <<EarlierSession(0, 2, up)>>
          /\ media_sessions = [c \in Clients |-> IF c = 0 THEN (2 :> 1) ELSE EmptyDict]

FirstCall ==
    \E dc \in DCs :
        yield_file_enter(1, BlobFileId(dc, 0), 0, 0, CutUnit, 1, ChunkSize)

SecondCall ==
    /\ tk[1].pc = "done"
    /\ yield_file_enter(2, tk[1].file_id, 0, 0, CutUnit, 1, ChunkSize)

NextSeq ==
    \/ FirstCall
    \/ SecondCall
    \/ \E t \in {1, 2} : SessionStep(t)
    \/ \E t \in {1, 2} : DirectStep(t, AwaitErrors)
    \/ \E t \in {1, 2} : CdnStep(t, AwaitErrors, {0})
    \/ \E sid \in 1 .. Len(sess) : session_disconnect(sid)

SpecSeq == InitSeq /\ [][NextSeq]_vars

(***************************************************************************)
(* Interleaved get_file_properties calls and the janitor, the pool idle or  *)
(* client 0 busy with one stream.                                          *)
(***************************************************************************)
InitResolve ==
    /\ work_loads \in {[c \in Clients |-> IF c = 0 THEN n ELSE 0] : n \in {0, 1}}
    /\ cdn_count = EmptyDict
    /\ cached_file_ids = EmptyDict
    /\ media_sessions = [c \in Clients |-> EmptyDict]
    /\ sess = <<>>
    /\ file = <<>>
    /\ rs = [p \in Resolvers |-> IdleResolver]
    /\ tk = [t \in Tasks |-> IdleTask]
    /\ lookups = [d \in FileIds |-> 0]
    /\ last_ret = [d \in FileIds |-> NoFileId]
    /\ hd = IdleHandler

NextResolve ==
    \/ \E p \in Resolvers, d \in FileIds : get_file_properties_hit(p, d)
    \/ \E p \in Resolvers, d \in FileIds : get_file_properties_miss(p, d)
    \/ \E p \in Resolvers : generate_file_properties_return(p)
    \/ \E p \in Resolvers : generate_file_properties_raise(p)
    \/ \E p \in Resolvers : resolver_next_request(p)
    \/ clean_cache

SpecResolve == InitResolve /\ [][NextResolve]_vars

(***************************************************************************)
(* The janitor next to two get_file_properties callers and a yield_file    *)
(* call of client 0 on its home data center.  The cache starts empty or    *)
(* holding db id 0, resolved earlier.  The sleep of line 325 always ends:  *)
(* weak fairness of clean_cache.                                           *)
(***************************************************************************)
InitJanitor ==
    /\ work_loads = [c \in Clients |-> 0]
    /\ cdn_count = EmptyDict
    /\ cached_file_ids \in {EmptyDict, (0 :> FileIdOf(0, 0))}
    /\ media_sessions = [c \in Clients |-> EmptyDict]
    /\ sess = <<>>
    /\ file = Blob(FileUnit)
    /\ rs = [p \in Resolvers |-> IdleResolver]
    /\ tk = [t \in Tasks |-> IdleTask]
    /\ lookups = [d \in FileIds |-> 0]
    /\ last_ret = [d \in FileIds |-> NoFileId]
    /\ hd = IdleHandler

NextJanitor ==
    \/ \E p \in {1, 2}, d \in FileIds : get_file_properties_hit(p, d)
    \/ \E p \in {1, 2}, d \in FileIds : get_file_properties_miss(p, d)
    \/ \E p \in {1, 2} : generate_file_properties_return(p)
    \/ \E p \in {1, 2} : generate_file_properties_raise(p)
    \/ \E p \in {1, 2} : resolver_next_request(p)
    \/ clean_cache
    \/ yield_file_enter(1, BlobFileId(HomeDc(0), 0), 0, 0, CutUnit, 1, ChunkSize)
    \/ gms_start_return(1)
    \/ fetch_return_file(1)
    \/ fetch_raise(1, "OSError")
    \/ os_stop_return(1)
    \/ yield_resume(1)

SpecJanitor == InitJanitor /\ [][NextJanitor]_vars /\ WF_vars(clean_cache)

(***************************************************************************)
(* One get_file_properties caller under every workload table.              *)
(***************************************************************************)
InitSelect ==
    /\ work_loads \in [Clients -> 0 .. MaxLoad]
    /\ cdn_count = EmptyDict
    /\ cached_file_ids = EmptyDict
    /\ media_sessions = [c \in Clients |-> EmptyDict]
    /\ sess = <<>>
    /\ file = <<>>
    /\ rs = [p \in Resolvers |-> IdleResolver]
    /\ tk = [t \in Tasks |-> IdleTask]
    /\ lookups = [d \in FileIds |-> 0]
    /\ last_ret = [d \in FileIds |-> NoFileId]
    /\ hd = IdleHandler

NextSelect ==
    \/ \E d \in FileIds : get_file_properties_hit(1, d)
    \/ \E d \in FileIds : get_file_properties_miss(1, d)
    \/ generate_file_properties_return(1)
    \/ generate_file_properties_raise(1)
    \/ resolver_next_request(1)
    \/ clean_cache

SpecSelect == InitSelect /\ [][NextSelect]_vars

(***************************************************************************)
(* Claims about yield_file and generate_media_session.                     *)
(***************************************************************************)

\* C1: whichever way a yield_file call ends, its workload counter is back at
\* its value before the call: decremented once for the one increment.
C1_WorkloadRestored ==
    \A t \in Tasks :
        tk[t].pc = "done"
            => /\ tk[t].decs = tk[t].incs
               /\ work_loads[ClientOf(t)] = 0

\* C2: interleaved generate_media_session calls for one (client, data center)
\* key never end with two sessions created and one overwriting the other in
\* the session table: a registered entry is never replaced by another session.
C2_NoSessionOverwritten ==
    [][\A c \in Clients : \A dc \in DOMAIN media_sessions[c] :
          (dc \in DOMAIN media_sessions'[c])
              => media_sessions'[c][dc] = media_sessions[c][dc]]_vars

\* s[a:b] written out by positions.
Cut(s, a, b) ==
    LET hi == IF b < Len(s) THEN b ELSE Len(s)
        n == IF hi > a THEN hi - a ELSE 0
    IN [i \in 1 .. n |-> s[a + i]]

\* The plaintext of part k of call t: chunk_size bytes of the blob from
\* offset + (k-1) * chunk_size.
BlobChunk(t, k) ==
    Cut(file, tk[t].offset0 + (k - 1) * tk[t].chunk_size,
              tk[t].offset0 + k * tk[t].chunk_size)

\* What the claim has call t yield for part k, chunk being the fetched chunk.
ExpectedPart(t, k, chunk) ==
    IF tk[t].part_count = 1
    THEN Cut(chunk, tk[t].first_part_cut, tk[t].last_part_cut)
    ELSE IF k = 1 THEN Cut(chunk, tk[t].first_part_cut, Len(chunk))
    ELSE IF k = tk[t].part_count THEN Cut(chunk, 0, tk[t].last_part_cut)
    ELSE chunk

RECURSIVE Flatten(_)
Flatten(ss) == IF ss = <<>> THEN <<>> ELSE Head(ss) \o Flatten(Tail(ss))

\* A call that fetched part_count non-empty chunks and ended without error.
RanAllParts(t) ==
    /\ tk[t].pc = "done"
    /\ tk[t].result = "end"
    /\ Len(tk[t].fetched) = tk[t].part_count

\* C5: with all fetched chunks non-empty and no error, the yielded chunks are
\* chunk[firstCut:lastCut] for one part and chunk_1[firstCut:], chunk_2, ...,
\* chunk_n[:lastCut] for n > 1 parts (cuts only at the first and last part),
\* so is their concatenation, and the direct and the CDN branch yield the
\* same for the same plaintext chunks.
C5_PartSlicing ==
    \A t \in Tasks :
        RanAllParts(t)
            => LET n == tk[t].part_count
                   expected == [k \in 1 .. n |-> ExpectedPart(t, k, tk[t].fetched[k])]
               IN /\ tk[t].fetched = [k \in 1 .. n |-> BlobChunk(t, k)]
                  /\ tk[t].yielded = expected
                  /\ Flatten(tk[t].yielded) = Flatten(expected)

\* A CDN call of three parts has ended normally, both cuts biting.
C5_Witness ==
    \E t \in Tasks :
        /\ RanAllParts(t)
        /\ tk[t].branch = "cdn"
        /\ tk[t].part_count = 3
        /\ tk[t].first_part_cut > 0
        /\ tk[t].last_part_cut > 0
        /\ tk[t].last_part_cut < Len(tk[t].fetched[3])
        /\ Len(tk[t].yielded[1]) < Len(tk[t].fetched[1])

\* The latest hash list of call t has an entry that differs from the hash of
\* its slice of the decrypted chunk.
HashMismatch(t) ==
    \E k \in 1 .. Len(tk[t].hashes) :
        tk[t].hashes[k].hash #
            sha256(Cut(tk[t].chunk, tk[t].hashes[k].limit * (k - 1),
                       tk[t].hashes[k].limit * k))

\* C6: after a hash mismatch in the CDN branch the call is on its way out with
\* the integrity error, which reaches the caller; the chunk at that offset
\* was not yielded, nothing is yielded later and no further fetch is issued.
C6_HashMismatchAborts ==
    \A t \in Tasks :
        HashMismatch(t)
            => /\ tk[t].pc \in {"cdn_stop", "done"}
               /\ (tk[t].pc = "cdn_stop") => (tk[t].exc = "CDNFileHashMismatch")
               /\ (tk[t].pc = "done") => (tk[t].result = "CDNFileHashMismatch")
               /\ Len(tk[t].yielded) = tk[t].current_part - 1
               /\ tk[t].fetches = 2 + Len(tk[t].yielded) + tk[t].reuploads

\* A CDN call has ended with the integrity error after yielding a chunk.
C6_Witness ==
    \E t \in Tasks :
        /\ tk[t].pc = "done"
        /\ tk[t].result = "CDNFileHashMismatch"
        /\ HashMismatch(t)
        /\ Len(tk[t].yielded) >= 1

\* C7: in the CDN branch a "reupload needed" answer makes the call request a
\* reupload and fetch again at the same offset, offset and part number
\* unchanged and nothing yielded for it; no chunk is yielded twice or
\* skipped; a reupload that fails with "not found" ends the branch as
\* end-of-data, without raising.
C7_ReuploadRetriesSameOffset ==
    /\ [][\A t \in Tasks :
            /\ (tk[t].pc = "cdn_fetch" /\ tk'[t].pc # "cdn_fetch"
                  /\ tk'[t].answer = "CdnFileReuploadNeeded")
               => /\ tk'[t].pc = "cdn_reupload"
                  /\ tk'[t].offset = tk[t].offset
                  /\ tk'[t].current_part = tk[t].current_part
                  /\ tk'[t].yielded = tk[t].yielded
                  /\ tk'[t].fetches = tk[t].fetches
            /\ (tk[t].pc = "cdn_reupload" /\ tk'[t].pc # "cdn_reupload"
                  /\ tk'[t].answer = "ok")
               => /\ tk'[t].pc = "cdn_fetch"
                  /\ tk'[t].offset = tk[t].offset
                  /\ tk'[t].current_part = tk[t].current_part
                  /\ tk'[t].yielded = tk[t].yielded
                  /\ tk'[t].fetches = tk[t].fetches + 1
            /\ (tk[t].pc = "cdn_reupload" /\ tk'[t].pc # "cdn_reupload"
                  /\ tk'[t].answer = "VolumeLocNotFound")
               => /\ tk'[t].pc = "cdn_stop"
                  /\ tk'[t].exc = ""
                  /\ tk'[t].yielded = tk[t].yielded]_vars
    /\ [](\A t \in Tasks :
            /\ (tk[t].answer = "VolumeLocNotFound")
               => /\ tk[t].pc \in {"cdn_stop", "done"}
                  /\ tk[t].exc = ""
                  /\ (tk[t].pc = "done") => (tk[t].result = "end")
            /\ (tk[t].branch = "cdn")
               => /\ tk[t].offset
                       = tk[t].offset0 + (tk[t].current_part - 1) * tk[t].chunk_size
                  /\ tk[t].fetched
                       = [k \in 1 .. Len(tk[t].yielded) |-> BlobChunk(t, k)])

\* A CDN call of several parts was told "reupload needed" and then ran all
\* its parts.
C7_Witness ==
    \E t \in Tasks :
        /\ RanAllParts(t)
        /\ tk[t].branch = "cdn"
        /\ tk[t].reuploads >= 1
        /\ tk[t].part_count >= 2

\* C11: a yield_file call that is consumed to its end and whose awaited
\* upstream calls all return comes to its end, in the direct and in the CDN
\* branch, also when the CDN node keeps answering "reupload needed".
C11_StreamTerminates == (tk[1].pc # "idle") ~> (tk[1].pc = "done")

\* The session ids that are in a session table.
InTable == {sid \in 1 .. Len(sess) :
               \E c \in Clients : \E dc \in DOMAIN media_sessions[c] :
                   media_sessions[c][dc] = sid}

\* C9: for a foreign data center the import is attempted at most 6 times, a
\* further attempt only after "invalid authorization bytes"; after 6 failures
\* the new session is stopped, the error is raised and that session is never
\* registered; a foreign session is registered only after an import succeeded.
C9_BoundedImportRetry ==
    /\ [](/\ \A t \in Tasks :
                /\ tk[t].attempts <= 6
                /\ (tk[t].result = "AuthBytesInvalid")
                   => /\ tk[t].pc = "done"
                      /\ tk[t].attempts = 6
                      /\ tk[t].created # 0
                      /\ sess[tk[t].created].stops = 1
                      /\ ~ sess[tk[t].created].is_started
                      /\ ~ sess[tk[t].created].registered
                      /\ tk[t].created \notin InTable
          /\ \A sid \in 1 .. Len(sess) :
                (sess[sid].registered /\ sess[sid].dc_id # HomeDc(sess[sid].client))
                   => sess[sid].imported)
    /\ [][\A t \in Tasks :
            (tk'[t].attempts # tk[t].attempts)
               => /\ tk'[t].attempts = tk[t].attempts + 1
                  /\ (tk[t].attempts = 0 \/ tk[t].answer = "AuthBytesInvalid")]_vars

\* A call has ended with the authorization error after its sixth import.
C9_Witness ==
    \E t \in Tasks :
        /\ tk[t].pc = "done"
        /\ tk[t].result = "AuthBytesInvalid"
        /\ tk[t].attempts = 6

\* C10: a CDN session is never in a session table and is stopped at most
\* once; when the call that opened it has ended, it has been stopped exactly
\* once, whatever ended the call.
C10_CdnSessionStoppedOnce ==
    /\ \A sid \in 1 .. Len(sess) :
          sess[sid].is_cdn
             => /\ ~ sess[sid].registered
                /\ sid \notin InTable
                /\ sess[sid].stops <= 1
    /\ \A t \in Tasks :
          (tk[t].pc = "done" /\ tk[t].cdn_session # 0)
             => /\ sess[tk[t].cdn_session].stops = 1
                /\ ~ sess[tk[t].cdn_session].is_started

\* The consumer closed a CDN call early and its CDN session is stopped.
C10_Witness ==
    \E t \in Tasks :
        /\ tk[t].pc = "done"
        /\ tk[t].result = "GeneratorExit"
        /\ tk[t].cdn_session # 0
        /\ sess[tk[t].cdn_session].stops = 1

\* C12: a transport error (OSError) inside the try of a yield_file call takes
\* the media session of the call's (client, data center) key out of the
\* session table and stops it, and the error reaches the caller; the next
\* call for that key finds no session and registers a new one of its own.
C12_TransportErrorDropsSession ==
    /\ [][\A t \in Tasks :
            (tk[t].pc # "os_stop" /\ tk'[t].pc = "os_stop")
               => LET c == tk[t].file_id.index
                      dc == tk[t].file_id.dc_id
                  IN /\ tk'[t].exc = "OSError"
                     /\ dc \in DOMAIN media_sessions[c]
                     /\ media_sessions[c][dc] = tk[t].media_session
                     /\ dc \notin DOMAIN media_sessions'[c]]_vars
    /\ [][\A t \in Tasks :
            (tk[t].pc = "idle" /\ tk'[t].pc # "idle" /\ tk[1].result = "OSError")
               => /\ tk'[t].pc \in {"gms_auth", "gms_start"}
                  /\ media_sessions' = media_sessions]_vars
    /\ [](\A t \in Tasks :
            /\ (tk[t].result = "OSError")
               => /\ tk[t].pc = "done"
                  /\ sess[tk[t].media_session].stops >= 1
                  /\ ~ sess[tk[t].media_session].is_started
                  /\ tk[t].media_session \notin InTable
            /\ (tk[1].result = "OSError" /\ t # 1 /\ tk[t].fetches >= 1)
               => /\ tk[t].created # 0
                  /\ tk[t].media_session = tk[t].created
                  /\ tk[t].created # tk[1].media_session
                  /\ sess[tk[t].created].registered)

\* The first call ended with OSError and the second call fetches through a
\* session that it created.
C12_Witness ==
    /\ tk[1].pc = "done" /\ tk[1].result = "OSError"
    /\ tk[2].pc = "fetch" /\ tk[2].created # 0
    /\ tk[2].media_session \in InTable

\* The exceptions that lines 307-308 swallow.
Swallowed == {"TimeoutError", "AttributeError"}

\* C13: a TimeoutError or AttributeError raised by an awaited call inside the
\* try of yield_file (direct or CDN branch) ends the stream as a normal end:
\* no error reaches the consumer, the chunks yielded so far are the slices of
\* the blob they were, nothing more is yielded or fetched, and the media
\* session of the call stays in the session table, started and never stopped.
C13_TimeoutEndsStreamQuietly ==
    /\ [](\A t \in Tasks :
            (tk[t].answer \in Swallowed)
               => /\ tk[t].pc \in {"cdn_stop", "done"}
                  /\ (tk[t].pc = "cdn_stop") => (tk[t].exc = tk[t].answer)
                  /\ (tk[t].pc = "done")
                        => (tk[t].result = "end" /\ tk[t].exc = "" /\ tk[t].decs = 1)
                  /\ tk[t].yielded
                        = [k \in 1 .. Len(tk[t].yielded) |->
                              ExpectedPart(t, k, BlobChunk(t, k))]
                  /\ tk[t].file_id.dc_id \in DOMAIN media_sessions[ClientOf(t)]
                  /\ media_sessions[ClientOf(t)][tk[t].file_id.dc_id] = tk[t].media_session
                  /\ sess[tk[t].media_session].is_started
                  /\ sess[tk[t].media_session].stops = 0)
    /\ [][\A t \in Tasks :
            (tk[t].answer \in Swallowed)
               => /\ tk'[t].yielded = tk[t].yielded
                  /\ tk'[t].fetches = tk[t].fetches
                  /\ media_sessions' = media_sessions]_vars

\* A CDN call that had yielded a chunk has ended normally after a timeout.
C13_Witness ==
    \E t \in Tasks :
        /\ tk[t].pc = "done" /\ tk[t].result = "end"
        /\ tk[t].answer = "TimeoutError"
        /\ tk[t].branch = "cdn"
        /\ Len(tk[t].yielded) >= 1

\* Call t has ended without error and not because of a swallowed exception or
\* a failed reupload.
EndedByLoop(t) ==
    /\ tk[t].pc = "done"
    /\ tk[t].result = "end"
    /\ tk[t].answer \notin Swallowed \cup {"VolumeLocNotFound"}

\* C14: in one yield_file call with part_count >= 1 the k-th yielded chunk is
\* cut from the chunk at offset + (k-1) * chunk_size, one chunk per part in
\* part order; never more than part_count chunks are yielded, exactly
\* part_count when the call ends without error and all its part_count chunks
\* are non-empty; a chunk is yielded only for a non-empty fetched chunk, and
\* an empty fetched chunk ends the call with no further fetch.
C14_ChunksInPartOrder ==
    \A t \in Tasks :
        (tk[t].part_count >= 1)
            => /\ Len(tk[t].yielded) <= tk[t].part_count
               /\ Len(tk[t].fetched) = Len(tk[t].yielded)
               /\ \A k \in 1 .. Len(tk[t].yielded) :
                     /\ tk[t].fetched[k] = BlobChunk(t, k)
                     /\ tk[t].fetched[k] # <<>>
                     /\ tk[t].yielded[k] = ExpectedPart(t, k, BlobChunk(t, k))
               /\ (tk[t].current_part >= 1)
                     => /\ Len(tk[t].yielded) \in {tk[t].current_part - 1, tk[t].current_part}
                        /\ tk[t].offset
                              = tk[t].offset0 + (tk[t].current_part - 1) * tk[t].chunk_size
               /\ (EndedByLoop(t) /\ \A k \in 1 .. tk[t].part_count : BlobChunk(t, k) # <<>>)
                     => Len(tk[t].yielded) = tk[t].part_count
               /\ (EndedByLoop(t) /\ Len(tk[t].yielded) < tk[t].part_count)
                     => /\ BlobChunk(t, Len(tk[t].yielded) + 1) = <<>>
                        /\ tk[t].current_part = Len(tk[t].yielded) + 1
                        /\ tk[t].branch = "direct" => tk[t].fetches = tk[t].current_part

\* A direct call of three parts that started past the first chunk of the blob
\* has yielded two chunks and ended at the empty third one.
C14_Witness ==
    \E t \in Tasks :
        /\ EndedByLoop(t)
        /\ tk[t].branch = "direct"
        /\ tk[t].part_count = 3
        /\ tk[t].offset0 > 0
        /\ Len(tk[t].yielded) = 2
        /\ tk[t].yielded[1] # tk[t].yielded[2]

\* generate_media_session has returned to call t (line 191 is passed).
Returned(t) == tk[t].fetches >= 1

\* C15: generate_media_session never returns a session that line 73 found not
\* started: that session is taken out of the table and stopped, a new one is
\* created, registered under the same key and returned.  A session found
\* started is returned as is: no session created, no authorization exchange,
\* no change to the table.
C15_StaleSessionReplaced ==
    /\ [](\A t \in Tasks :
            /\ (Returned(t) /\ tk[t].found # 0 /\ ~ tk[t].found_up)
               => /\ tk[t].media_session # tk[t].found
                  /\ tk[t].media_session = tk[t].created
                  /\ sess[tk[t].found].stops >= 1
                  /\ sess[tk[t].created].registered
                  /\ sess[tk[t].created].dc_id = tk[t].file_id.dc_id
                  /\ sess[tk[t].created].client = ClientOf(t)
            /\ (Returned(t) /\ tk[t].found # 0 /\ tk[t].found_up)
               => /\ tk[t].media_session = tk[t].found
                  /\ tk[t].created = 0
                  /\ tk[t].attempts = 0)
    /\ [][\A t \in Tasks :
            LET c == tk'[t].file_id.index
                dc == tk'[t].file_id.dc_id
            IN /\ (tk[t].pc = "idle" /\ tk'[t].pc # "idle" /\ tk'[t].found # 0)
                  => IF tk'[t].found_up
                     THEN /\ tk'[t].pc = "fetch"
                          /\ media_sessions' = media_sessions
                          /\ sess' = sess
                     ELSE /\ tk'[t].pc = "gms_stop_old"
                          /\ dc \notin DOMAIN media_sessions'[c]
                          /\ tk'[t].found \notin InTable'
               /\ (tk[t].pc \notin {"idle", "fetch"} /\ tk'[t].pc = "fetch"
                     /\ tk[t].fetches = 0)
                  => /\ dc \in DOMAIN media_sessions'[c]
                     /\ media_sessions'[c][dc] = tk'[t].media_session
                     /\ tk'[t].media_session = tk'[t].created]_vars

\* A call that found a stopped transport in the table fetches through a
\* session it created, the old one stopped.
C15_Witness ==
    \E t \in Tasks :
        /\ Returned(t)
        /\ tk[t].found # 0 /\ ~ tk[t].found_up
        /\ tk[t].created # 0 /\ tk[t].media_session = tk[t].created
        /\ sess[tk[t].found].stops = 1
        /\ tk[t].created \in InTable

\* Some call has taken session sid out of the table and awaits its stop().
BeingStopped(sid) ==
    \E t \in Tasks : tk[t].pc \in {"gms_stop_old", "os_stop"} /\ tk[t].media_session = sid

\* C19: in every interleaving of yield_file calls on one (client, data
\* center) key, a session that was registered and is no longer in the table
\* has been stopped, or is being stopped, by the call that took it out; a call
\* that handles a transport error takes out of the table the session it is
\* using, the one it then stops.
C19_UnregisteredSessionStopped ==
    /\ [](\A sid \in 1 .. Len(sess) :
            (sess[sid].registered /\ sid \notin InTable)
               => (sess[sid].stops >= 1 \/ BeingStopped(sid)))
    /\ [][\A t \in Tasks :
            (tk[t].pc # "os_stop" /\ tk'[t].pc = "os_stop")
               => \A sid \in InTable \ InTable' : sid = tk[t].media_session]_vars

\* The yield_file calls through client i that have started and not ended.
ActiveCalls(i) == {t \in Tasks : tk[t].pc \notin {"idle", "done"} /\ ClientOf(t) = i}

\* C20: in every reachable state the workload counter of every client is not
\* negative and equals the number of yield_file calls through that client
\* that have started and not yet ended; steps of the resolver, of session
\* creation and of the janitor leave every counter as it is.
C20_WorkloadCountsActiveCalls ==
    /\ [](\A i \in Clients :
            /\ work_loads[i] >= 0
            /\ work_loads[i] = Cardinality(ActiveCalls(i)))
    /\ [][(rs' # rs \/ cached_file_ids' # cached_file_ids \/ Len(sess') > Len(sess))
            => (work_loads' = work_loads \/ \E t \in Tasks : tk[t].pc = "idle" /\ tk'[t].pc # "idle")]_vars

(***************************************************************************)
(* Claims about the resolver.                                              *)
(***************************************************************************)

\* The get_file_ids calls in flight for db id d.
InFlight(d) == {p \in Resolvers : rs[p].pc = "lookup" /\ rs[p].db_id = d}

\* C3: interleaved get_file_properties calls for one uncached id issue the
\* upstream lookup at most once: never two lookups of the same id in flight.
C3_SingleFlightLookup == \A d \in FileIds : Cardinality(InFlight(d)) <= 1

\* C4 as stated: a resolution started after a resolution of the same id has
\* completed returns the descriptor that one returned and issues no lookup.
C4_SecondResolutionIsHit ==
    \A p \in Resolvers :
        (rs[p].pc = "done" /\ rs[p].err = "" /\ rs[p].prev # NoFileId)
            => (rs[p].hit /\ rs[p].ret = rs[p].prev)

\* C4 amended: a resolution of an id that is cached when the resolution starts
\* returns the cached descriptor, issues no upstream lookup and leaves the
\* cache and the workload table unchanged.
C4_HitReturnsCached ==
    [][\A p \in Resolvers, d \in FileIds :
          (rs[p].pc = "idle" /\ rs'[p].pc # "idle" /\ rs'[p].db_id = d
             /\ d \in DOMAIN cached_file_ids)
          => /\ rs'[p].pc = "done"
             /\ rs'[p].ret = cached_file_ids[d]
             /\ rs'[p].err = ""
             /\ lookups' = lookups
             /\ cached_file_ids' = cached_file_ids
             /\ work_loads' = work_loads]_vars

\* A second resolution of an id has hit the cache entry that an earlier
\* resolution wrote.
C4_Witness ==
    \E p \in Resolvers :
        /\ rs[p].pc = "done" /\ rs[p].hit
        /\ rs[p].prev # NoFileId /\ rs[p].ret = rs[p].prev
        /\ lookups[rs[p].db_id] = 1

\* i has the least workload, and the lowest index among those that have it.
LowestLeastLoaded(wl, i) ==
    /\ \A j \in Clients : wl[i] <= wl[j]
    /\ \A j \in Clients : (wl[j] = wl[i]) => (i <= j)

\* C8: on a miss the lookup goes through the least loaded connection, the
\* lowest index among ties; workloads {0:3, 1:1, 2:1} select index 1.
C8_LeastLoadedLowestIndex ==
    [][\A p \in Resolvers :
          (rs[p].pc = "idle" /\ rs'[p].pc = "lookup")
          => /\ LowestLeastLoaded(work_loads, rs'[p].index)
             /\ (work_loads[0] = 3 /\ work_loads[1] = 1 /\ work_loads[2] = 1
                   /\ \A c \in Clients \ {0, 1, 2} : work_loads[c] > 1)
                 => rs'[p].index = 1]_vars

\* The scenario of the claim: workloads {0:3, 1:1, 2:1}, a lookup under way.
C8_Witness ==
    /\ work_loads[0] = 3 /\ work_loads[1] = 1 /\ work_loads[2] = 1
    /\ \A c \in Clients \ {0, 1, 2} : work_loads[c] > 1
    /\ \E p \in Resolvers : rs[p].pc = "lookup" /\ rs[p].index = 1

\* C16: a step in which an entry leaves the descriptor cache is a janitor
\* cycle: it leaves the cache empty whatever it held and changes nothing
\* else (no resolver, stream or session step drops an entry; the session and
\* workload tables are untouched); an entry that stays is changed only by a
\* completing resolution of its id, which replaces it whole; and the janitor
\* keeps cycling: the cache is empty again and again.
C16_JanitorClearsWholeCache ==
    /\ [][(\E d \in DOMAIN cached_file_ids : d \notin DOMAIN cached_file_ids')
            => /\ cached_file_ids' = EmptyDict
               /\ rs' = rs /\ tk' = tk
               /\ media_sessions' = media_sessions /\ sess' = sess
               /\ work_loads' = work_loads /\ cdn_count' = cdn_count]_vars
    /\ [][\A d \in (DOMAIN cached_file_ids) \cap (DOMAIN cached_file_ids') :
            (cached_file_ids'[d] # cached_file_ids[d])
               => \E p \in Resolvers :
                     /\ rs[p].pc = "lookup" /\ rs[p].db_id = d
                     /\ rs'[p].pc = "done" /\ rs'[p].err = ""
                     /\ cached_file_ids'[d] = rs'[p].ret]_vars
    /\ []<>(cached_file_ids = EmptyDict)

\* A resolution has completed and its entry is gone again, the cache empty,
\* while a stream of client 0 is under way with its session registered.
C16_Witness ==
    /\ cached_file_ids = EmptyDict
    /\ \E p \in Resolvers :
          rs[p].pc = "done" /\ rs[p].err = "" /\ ~ rs[p].hit
    /\ tk[1].pc = "yielded"
    /\ work_loads[0] = 1
    /\ tk[1].media_session \in InTable

\* C17: when get_file_ids raises, get_file_properties ends with that error
\* after the one lookup it issued (no second lookup) and the cache is as it
\* was: no entry for the id is added, no other entry changes.
C17_LookupErrorPropagates ==
    /\ [][\A p \in Resolvers :
            /\ (rs[p].pc = "idle" /\ rs'[p].pc = "lookup")
               => lookups'[rs'[p].db_id] = lookups[rs'[p].db_id] + 1
            /\ (rs[p].pc = "lookup" /\ rs'[p].pc = "lookup")
               => (rs'[p] = rs[p] /\ lookups'[rs[p].db_id] >= lookups[rs[p].db_id])
            /\ (rs[p].pc = "lookup" /\ rs'[p].err # "")
               => /\ rs'[p].pc = "done"
                  /\ lookups' = lookups
                  /\ cached_file_ids' = cached_file_ids]_vars
    /\ [](\A p \in Resolvers :
            (rs[p].err # "")
               => /\ rs[p].pc = "done"
                  /\ rs[p].ret = NoFileId
                  /\ ~ rs[p].hit)

\* A resolution has failed: its one lookup is counted, its id is not cached
\* and the entry of db id 0 is still there.
C17_Witness ==
    \E p \in Resolvers :
        /\ rs[p].pc = "done" /\ rs[p].err = "LookupError"
        /\ lookups[rs[p].db_id] = 1
        /\ rs[p].db_id \notin DOMAIN cached_file_ids
        /\ 0 \in DOMAIN cached_file_ids

(***************************************************************************)
(* Claims about the upload handler.                                        *)
(***************************************************************************)

\* C18: a FloodWait raised while the handler stores the file, resolves it or
\* sends the reply is recovered in the handler: it sleeps e.value, sends the
\* notification only after that sleep, and no FloodWait leaves the handler.
C18_FloodWaitRecovered ==
    (hd.value > 0 /\ hd.at \in {"add_file", "get_file_ids", "reply_text"})
        => /\ hd.pc \in {"sleep", "send_message", "done"}
           /\ (hd.pc = "send_message") => (hd.slept = hd.value)
           /\ hd.notified => (hd.slept = hd.value)
           /\ (hd.pc = "done") => (hd.slept = hd.value /\ hd.result # "FloodWait")

====
